---- MODULE Spec2Model ----
(***************************************************************************)
(* A model of footy (src/src/lib.rs): the roster store behind              *)
(* ./teams.csv and its interactive editor, the fetch / normalise / render  *)
(* pipeline of run, and the pure row-formatting helpers.                   *)
(*                                                                         *)
(* Text is modelled as a sequence of one-character strings, so that        *)
(* to_lowercase, trim, split and parse are computed character by           *)
(* character, as the code computes them.                                   *)
(***************************************************************************)
EXTENDS Integers, Sequences, FiniteSets, TLC

VARIABLES
    \* ---- row formatting (format_schedule_row and its helpers)
    colors_hashmap,   \* id_rgb.csv as read by read_ids_and_rgb_from_csv
    fixture,          \* the fixture handed to format_schedule_row
    row,              \* what format_schedule_row printed (NoRow before the call)
    \* ---- the roster store and the process's output
    teams_csv,        \* the rows of ./teams.csv, in file order
    stdout,           \* the lines the current process has printed
    stderr,           \* the lines the current process has written to stderr
    lookups,          \* try_get_team_id calls made by the current process
    exit,             \* "running", "ok" (run returned), "panic" or "exit1"
    answer,           \* what the teams endpoint answered the current process
    hist,             \* the last append and what followed it (history)
    \* ---- one process running one command (run)
    cmd,              \* Command.command_type
    pc,               \* where the process stands: "start", ..., "done"
    pending,          \* the calls the fetch loop has still to make
    res,              \* the fetch loop's Vec of bodies
    requests,         \* the URLs requested so far, in order
    utc_day,          \* the UTC calendar day of the clock
    result,           \* what match_cmd_and_call returned
    parsed,           \* what parse_fixtures returned
    parse_calls,      \* calls of parse_fixtures made by the process
    failed_at,        \* the number of the call that failed, 0 if none (history)
    stdin_line,       \* the selection line the editor read from stdin
    team_input,       \* the team line the editor read from stdin
    CONFIG_PATH,      \* the environment variable CONFIG_PATH
    config_csv,       \* the file CONFIG_PATH names when that is not ./teams.csv
    teams_file        \* what read_from_teams_csv returned to the process

renderVars == <<colors_hashmap, fixture, row>>

storeVars == <<teams_csv, stdout, stderr, lookups, exit, answer, hist>>

runVars == <<cmd, pc, pending, res, requests, utc_day, result, parsed,
             parse_calls, failed_at>>

ioVars == <<stdin_line, team_input, CONFIG_PATH, config_csv, teams_file>>

vars == <<colors_hashmap, fixture, row, teams_csv, stdout, stderr, lookups,
          exit, answer, hist, cmd, pc, pending, res, requests, utc_day, result, parsed,
          parse_calls, failed_at, stdin_line, team_input, CONFIG_PATH, config_csv,
          teams_file>>

(***************************************************************************)
(* Text helpers                                                            *)
(***************************************************************************)

\* "abc" as <<"a","b","c">> is written out by hand: TLC cannot index a string.
Digit == {"0", "1", "2", "3", "4", "5", "6", "7", "8", "9"}

DigitVal(c) ==
    CASE c = "0" -> 0 [] c = "1" -> 1 [] c = "2" -> 2 [] c = "3" -> 3
      [] c = "4" -> 4 [] c = "5" -> 5 [] c = "6" -> 6 [] c = "7" -> 7
      [] c = "8" -> 8 [] c = "9" -> 9

DigitChar(d) ==
    CASE d = 0 -> "0" [] d = 1 -> "1" [] d = 2 -> "2" [] d = 3 -> "3"
      [] d = 4 -> "4" [] d = 5 -> "5" [] d = 6 -> "6" [] d = 7 -> "7"
      [] d = 8 -> "8" [] d = 9 -> "9"

\* str::contains of a single character.
Contains(s, c) == \E i \in 1..Len(s) : s[i] = c

\* str::trim_matches: drop every leading and every trailing character of set.
TrimMatches(s, set) ==
    LET keep == {i \in 1..Len(s) : s[i] \notin set}
    IN  IF keep = {} THEN << >>
        ELSE LET lo == CHOOSE i \in keep : \A j \in keep : i <= j
                 hi == CHOOSE i \in keep : \A j \in keep : j <= i
             IN  SubSeq(s, lo, hi)

\* str::trim for the whitespace the model's texts hold.
Trim(s) == TrimMatches(s, {" ", "\t", "\n"})

\* str::split(sep).collect(): the pieces between separators, empty ones kept.
RECURSIVE Split(_, _)
Split(s, sep) ==
    IF ~Contains(s, sep) THEN <<s>>
    ELSE LET i == CHOOSE k \in 1..Len(s) :
                      s[k] = sep /\ \A j \in 1..(k - 1) : s[j] # sep
         IN  <<SubSeq(s, 1, i - 1)>> \o Split(SubSeq(s, i + 1, Len(s)), sep)

\* The value of a run of decimal digits.
RECURSIVE DecimalValue(_)
DecimalValue(s) ==
    IF s = << >> THEN 0
    ELSE 10 * DecimalValue(SubSeq(s, 1, Len(s) - 1)) + DigitVal(s[Len(s)])

\* The decimal digits of a natural number (what format!("{}", n) writes).
RECURSIVE Decimal(_)
Decimal(n) ==
    IF n < 10 THEN <<DigitChar(n)>>
    ELSE Decimal(n \div 10) \o <<DigitChar(n % 10)>>

U8Max == 255

\* str::parse::<u8>: an optional '+', then one or more digits, at most 255.
\* ok = FALSE is the Err that the callers unwrap.
ParseU8(s) ==
    LET body == IF s # << >> /\ s[1] = "+" THEN Tail(s) ELSE s
    IN  IF body = << >> \/ \E i \in 1..Len(body) : body[i] \notin Digit
        THEN [ok |-> FALSE, val |-> 0]
        ELSE IF DecimalValue(body) > U8Max
             THEN [ok |-> FALSE, val |-> 0]
             ELSE [ok |-> TRUE, val |-> DecimalValue(body)]

(***************************************************************************)
(* Row formatting: check_if_fixture_in_progress, parse_rgb_string,         *)
(* get_text_color, format_schedule_row                                     *)
(***************************************************************************)

InProgressSuffix == "| In Progress"

\* A mutant of check_if_fixture_in_progress: the first branch ("FT") is lost.
check_if_fixture_in_progress_noFT(short_status) ==
    IF short_status # "TBD" /\ short_status # "NS" THEN InProgressSuffix ELSE ""

check_if_fixture_in_progress(short_status) ==
    IF short_status = "FT" THEN ""
    ELSE IF short_status # "TBD" /\ short_status # "NS" THEN InProgressSuffix
    ELSE ""

White == <<255, 255, 255>>

\* What a call that unwraps an Err, or indexes past the end, leaves behind.
RgbPanic == [panic |-> TRUE, rgb |-> << >>]

Rgb(triple) == [panic |-> FALSE, rgb |-> triple]

\* A mutant of parse_rgb_string: green and blue are read from swapped places,
\* and a string without a parenthesis resolves to black.
parse_rgb_string_swapped(rgb_string) ==
    IF ~Contains(rgb_string, "(") THEN Rgb(<<0, 0, 0>>)
    ELSE LET values == Split(TrimMatches(rgb_string, {"(", ")"}), ",")
         IN  IF Len(values) < 3 THEN RgbPanic
             ELSE LET r == ParseU8(Trim(values[1]))
                      g == ParseU8(Trim(values[3]))
                      b == ParseU8(Trim(values[2]))
                  IN  IF r.ok /\ g.ok /\ b.ok
                      THEN Rgb(<<r.val, g.val, b.val>>)
                      ELSE RgbPanic

parse_rgb_string(rgb_string) ==
    IF ~Contains(rgb_string, "(") THEN Rgb(White)
    ELSE LET values == Split(TrimMatches(rgb_string, {"(", ")"}), ",")
         IN  IF Len(values) < 3 THEN RgbPanic
             ELSE LET r == ParseU8(Trim(values[1]))
                      g == ParseU8(Trim(values[2]))
                      b == ParseU8(Trim(values[3]))
                  IN  IF r.ok /\ g.ok /\ b.ok
                      THEN Rgb(<<r.val, g.val, b.val>>)
                      ELSE RgbPanic

\* The text unwrap_or supplies for an id the table does not hold.
DefaultRgbString ==
    <<"(", "2", "5", "5", ",", " ", "2", "5", "5", ",", " ", "2", "5", "5", ")">>

\* The colour truecolor is called with for the team of this id.
get_text_color(rgb_hash_map, team_id) ==
    parse_rgb_string(IF team_id \in DOMAIN rgb_hash_map
                     THEN rgb_hash_map[team_id]
                     ELSE DefaultRgbString)

NoRow == [state |-> "none"]

\* A lookup the row never made: the process had already panicked.
RgbNotCalled == [panic |-> FALSE, rgb |-> << >>]

FieldWidth == 27

\* Characters whose UTF-8 encoding takes two bytes (o-umlaut, e-acute).
TwoByteChars == {"U+00F6", "U+00E9"}

Utf8Len(c) == IF c \in TwoByteChars THEN 2 ELSE 1

\* str::len: the number of bytes of the text.
RECURSIVE str_len(_)
str_len(s) == IF s = << >> THEN 0 ELSE Utf8Len(Head(s)) + str_len(Tail(s))

\* A usize: the value n, or, once a subtraction has wrapped, 2^64 - n.
Usize(n) == [wrapped |-> FALSE, n |-> n]

Wrapped(n) == [wrapped |-> TRUE, n |-> n]

\* 27 - len on usize.  Below zero the subtraction panics where the build
\* checks overflow (debug) and wraps where it does not (release).
whitespace(len, overflow_checks) ==
    IF len <= FieldWidth THEN [panic |-> FALSE, val |-> Usize(FieldWidth - len)]
    ELSE IF overflow_checks THEN [panic |-> TRUE, val |-> Usize(0)]
    ELSE [panic |-> FALSE, val |-> Wrapped(len - FieldWidth)]

\* The number of spaces `for _i in 1..w { print!(" ") }` prints.
spaces(w) ==
    IF w.wrapped THEN Wrapped(w.n + 1)
    ELSE Usize(IF w.n >= 1 THEN w.n - 1 ELSE 0)

NoSpaces == Usize(0)

\* What a fixture row has printed, and how far it got: "overflow" (a width
\* panicked, nothing printed), "panic" (a colour or an unwrap panicked),
\* "padding" (a wrapped width: a loop of 2^64 - n spaces) or "printed".
Row(state, away, away_pad, home, home_pad) ==
    [state |-> state, away |-> away, home |-> home, away_pad |-> away_pad,
     home_pad |-> home_pad, suffix |-> ""]

\* The home name and its spaces.
print_home(away, away_pad, home, home_pad) ==
    IF home.panic THEN Row("panic", away, away_pad, home, NoSpaces)
    ELSE Row(IF home_pad.wrapped THEN "padding" ELSE "printed",
             away, away_pad, home, home_pad)

\* The away name and its spaces, then the home name.
print_away(colors, fx, away, away_pad, home_pad) ==
    IF away.panic THEN Row("panic", away, NoSpaces, RgbNotCalled, NoSpaces)
    ELSE IF away_pad.wrapped
    THEN Row("padding", away, away_pad, RgbNotCalled, NoSpaces)
    ELSE print_home(away, away_pad, get_text_color(colors, fx.home), home_pad)

\* Both widths are computed before anything is printed.
print_names(colors, fx, t1_whitespace, t2_whitespace) ==
    IF t1_whitespace.panic \/ t2_whitespace.panic
    THEN Row("overflow", RgbNotCalled, NoSpaces, RgbNotCalled, NoSpaces)
    ELSE print_away(colors, fx, get_text_color(colors, fx.away),
                    spaces(t1_whitespace.val), spaces(t2_whitespace.val))

\* The part the three fixture rows share: both widths are computed, then
\* the away name, its spaces, the home name and its spaces are printed.  A
\* panic ends the process where it happens.
padded_names(colors, fx, overflow_checks) ==
    print_names(colors, fx,
                whitespace(str_len(fx.away_name), overflow_checks),
                whitespace(str_len(fx.home_name), overflow_checks))

\* The end of the schedule row: the in-progress suffix.
schedule_tail(names, fx) ==
    IF names.state = "printed"
    THEN [names EXCEPT !.suffix = check_if_fixture_in_progress(fx.short)]
    ELSE names

\* The end of a live or score row: `present` says whether every value the
\* row unwraps is there.
unwrap_tail(names, present) ==
    IF names.state = "printed" /\ ~present
    THEN [names EXCEPT !.state = "unwrap_panic"]
    ELSE names

\* The schedule row: the padded names and the in-progress suffix, in the
\* order the code prints them.
format_schedule_row(colors, fx, overflow_checks) ==
    schedule_tail(padded_names(colors, fx, overflow_checks), fx)

\* The live row: the padded names, then the goals and the minute, each
\* unwrapped.
format_live_row(colors, fx, overflow_checks) ==
    unwrap_tail(padded_names(colors, fx, overflow_checks), fx.goals /\ fx.elapsed)

\* The score row: the padded names, then the goals, unwrapped, and the date.
format_score_row(colors, fx, overflow_checks) ==
    unwrap_tail(padded_names(colors, fx, overflow_checks), fx.goals)

\* ---- the inputs of the row-formatting specification

\* "(r, g, b)": how id_rgb.csv writes a colour (tests::test_read_rgb_csv).
FormatRgb(r, g, b) ==
    <<"(">> \o Decimal(r) \o <<",", " ">> \o Decimal(g) \o <<",", " ">>
            \o Decimal(b) \o <<")">>

U8Samples == {0, 35, 89}

WellFormedRgb == {FormatRgb(r, g, b) : r \in U8Samples, g \in U8Samples, b \in U8Samples}

\* Stored values without an opening parenthesis.
SentinelRgb == {<<"w", "h", "i", "t", "e">>, << >>, <<"n", "/", "a">>, <<"0", ",", "0", ",", "0", ")">>}

\* Stored values with a parenthesis that are no triple of 8-bit integers,
\* and triples in other spacings.
OddRgb ==
    { <<"(", "2", "5", "6", ",", " ", "0", ",", " ", "0", ")">>,
      <<"(", "1", ",", " ", "2", ")">>,
      <<"(", "a", ",", " ", "0", ",", " ", "0", ")">>,
      <<"(", ")">>,
      <<"(", "7", ",", "8", ",", "9", ")">>,
      <<"(", "(", " ", "7", " ", ",", " ", "0", "8", ",", "+", "9", ")">> }

RgbStrings == WellFormedRgb \cup {DefaultRgbString} \cup SentinelRgb \cup OddRgb

ColorIds == {40, 50}

TeamIds == {40, 50, 907}

StatusCodes == {"FT", "TBD", "NS", "1H", "HT", "ft", ""}

ColorTables ==
    UNION {[d -> RgbStrings] : d \in SUBSET ColorIds}

\* A name of n one-byte characters.
Filled(n) == [i \in 1..n |-> "x"]

Ajax == <<"A", "j", "a", "x">>

Koeln == <<"K", "U+00F6", "l", "n">>

\* Team names as the API sends them: short ones, one with a two-byte
\* character, and names around the width of the name field.
ApiNames == {Ajax, Koeln, Filled(26), Filled(27), Filled(28), Filled(30)}

\* goals and elapsed: whether the API sent a value (Some) or null (None).
Fixtures ==
    [away : TeamIds, home : TeamIds, short : StatusCodes,
     away_name : {Ajax}, home_name : {Koeln}, goals : {FALSE},
     elapsed : {FALSE}]

\* The fixtures of the rows whose names vary.
RowFixtures ==
    [away : {40}, home : {907}, short : {"NS", "1H"},
     away_name : ApiNames, home_name : ApiNames, goals : BOOLEAN,
     elapsed : BOOLEAN]

RowColorTables == {40 :> FormatRgb(0, 35, 89)}

(***************************************************************************)
(* The roster store: add_team_to_csv, remove_team_from_csv,                *)
(* read_from_teams_csv; and the editor: prompt_teams_edit, get_team_input, *)
(* add_team, try_get_team_id, print_all_teams                              *)
(***************************************************************************)

\* char::to_lowercase for the letters the model's names are written in.
LowerChar(c) ==
    CASE c = "A" -> "a" [] c = "J" -> "j" [] c = "X" -> "x"
      [] c = "R" -> "r" [] c = "O" -> "o" [] c = "M" -> "m"
      [] OTHER -> c

\* str::to_lowercase.
to_lowercase(s) == [i \in 1..Len(s) |-> LowerChar(s[i])]

\* A mutant of add_team_to_csv: the file is opened with truncate, not append.
add_team_to_csv_truncating(rows, team) == <<team>>

\* add_team_to_csv: one serialized record is appended to the file.
add_team_to_csv(rows, team) == Append(rows, team)

\* A mutant of remove_team_from_csv: names are compared as written.
remove_team_from_csv_exact(rows, team) ==
    SelectSeq(rows, LAMBDA record : record.name # team)

\* remove_team_from_csv: the file rewritten with the records retain keeps.
remove_team_from_csv(rows, team) ==
    SelectSeq(rows, LAMBDA record : to_lowercase(record.name) # to_lowercase(team))

\* One printed line.
Line(msg, arg) == [msg |-> msg, arg |-> arg]

\* The outcome of try_get_team_id for one upstream answer: send() failing is
\* unwrapped (a panic); text() failing, a body that is no TeamResponse and an
\* empty response list are the Err arm; otherwise the first team returned.
try_get_team_id(lookup) ==
    IF lookup.shape = "send_fails" THEN [panic |-> TRUE, ok |-> FALSE, team |-> << >>]
    ELSE IF lookup.shape \in {"text_fails", "unparsable"}
         THEN [panic |-> FALSE, ok |-> FALSE, team |-> << >>]
    ELSE IF lookup.response = << >>
         THEN [panic |-> FALSE, ok |-> FALSE, team |-> << >>]
    ELSE [panic |-> FALSE, ok |-> TRUE, team |-> <<lookup.response[1]>>]

\* A mutant of add_team: the Err arm appends the typed name with id 0.
add_team_always(rows, team, lookup) ==
    LET got == try_get_team_id(lookup)
    IN  IF got.panic
        THEN [rows |-> rows, out |-> << >>, panic |-> TRUE, appended |-> << >>]
        ELSE IF got.ok
        THEN [rows     |-> add_team_to_csv(rows, got.team[1]),
              out      |-> <<Line("Added", team)>>,
              panic    |-> FALSE,
              appended |-> got.team]
        ELSE [rows     |-> add_team_to_csv(rows, [name |-> team, id |-> 0]),
              out      |-> <<Line("Not a valid team.", << >>)>>,
              panic    |-> FALSE,
              appended |-> << >>]

\* add_team: look the name up once; append what the API returned, or print
\* "Not a valid team." and leave the file alone.
add_team(rows, team, lookup) ==
    LET got == try_get_team_id(lookup)
    IN  IF got.panic
        THEN [rows |-> rows, out |-> << >>, panic |-> TRUE, appended |-> << >>]
        ELSE IF got.ok
        THEN [rows     |-> add_team_to_csv(rows, got.team[1]),
              out      |-> <<Line("Added", team)>>,
              panic    |-> FALSE,
              appended |-> got.team]
        ELSE [rows     |-> rows,
              out      |-> <<Line("Not a valid team.", << >>)>>,
              panic    |-> FALSE,
              appended |-> << >>]

\* A line printed before what the rest of a loop leaves.
After(line, rest) == [rest EXCEPT !.out = <<line>> \o @]

\* print_all_teams: one coloured line per row, in file order; a colour that
\* does not parse panics, after the lines of the rows before it.
RECURSIVE print_all_teams(_, _)
print_all_teams(rows, colors) ==
    IF rows = << >> THEN [panic |-> FALSE, out |-> << >>]
    ELSE IF get_text_color(colors, Head(rows).id).panic
    THEN [panic |-> TRUE, out |-> << >>]
    ELSE After(Line("team", Head(rows).name), print_all_teams(Tail(rows), colors))

\* get_team_input up to its read of stdin: what it prints, and whether the
\* listing panicked.
get_team_input(opt, rows, colors) ==
    IF opt = "a"
    THEN [panic |-> FALSE, out |-> <<Line("Enter a team to add", << >>)>>]
    ELSE IF opt = "r"
    THEN LET listed == print_all_teams(rows, colors)
         IN  [panic |-> listed.panic,
              out   |-> <<Line("Your current teams", << >>)>> \o listed.out \o
                        (IF listed.panic THEN << >>
                         ELSE <<Line("Enter a team to remove", << >>)>>)]
    ELSE [panic |-> FALSE, out |-> << >>]

\* A mutant of prompt_teams_edit: the selection is decided by the first
\* character of the trimmed line.
prompt_teams_edit_firstChar(rows, colors, char_input) ==
    LET first == IF Trim(char_input) = << >> THEN << >>
                 ELSE <<Trim(char_input)[1]>>
        add    == get_team_input("a", rows, colors)
        remove == get_team_input("r", rows, colors)
    IN  IF first = <<"a">>
        THEN [arm |-> "a", panic |-> add.panic, out |-> add.out]
        ELSE IF first = <<"r">>
        THEN [arm |-> "r", panic |-> remove.panic, out |-> remove.out]
        ELSE [arm |-> "invalid", panic |-> FALSE,
              out |-> <<Line("Invalid input", << >>)>>]

\* prompt_teams_edit from the selection line it has read to the next read
\* of stdin: the arm of the match, and what get_team_input prints before it
\* reads the team.
prompt_teams_edit(rows, colors, char_input) ==
    LET add    == get_team_input("a", rows, colors)
        remove == get_team_input("r", rows, colors)
    IN  IF Trim(char_input) = <<"a">>
        THEN [arm |-> "a", panic |-> add.panic, out |-> add.out]
        ELSE IF Trim(char_input) = <<"r">>
        THEN [arm |-> "r", panic |-> remove.panic, out |-> remove.out]
        ELSE [arm |-> "invalid", panic |-> FALSE,
              out |-> <<Line("Invalid input", << >>)>>]

\* ---- the inputs of the roster specification

MaxRows == 3

TeamNames ==
    { <<"A", "j", "a", "x">>, <<"A", "J", "A", "X">>, <<"R", "o", "m", "a">> }

RosterIds == {33, 44}

RosterEntries == [name : TeamNames, id : RosterIds]

\* What the user may type at the selection prompt (read_line keeps the "\n").
SelectionLines ==
    { <<"a", "\n">>, <<" ", "a", " ", "\n">>, <<"r", "\n">>,
      <<"a", "d", "d", "\n">>, <<"r", "m", "\n">>, <<"A", "\n">>,
      <<"x", "\n">>, <<"\n">> }

\* What the user may type at the team prompt.
TeamLines ==
    {name \o <<"\n">> : name \in TeamNames} \cup {<<" ", "a", "j", "a", "x", " ", "\n">>}

\* The answer of a request that could not be sent.
SendFails == [shape |-> "send_fails", response |-> << >>]

\* What the teams endpoint may answer.
LookupAnswers ==
    { SendFails,
      [shape |-> "text_fails", response |-> << >>],
      [shape |-> "unparsable", response |-> << >>],
      [shape |-> "teams", response |-> << >>] }
    \cup {[shape |-> "teams", response |-> <<e>>] : e \in RosterEntries}
    \cup {[shape |-> "teams",
           response |-> <<[name |-> <<"R", "o", "m", "a">>, id |-> 44],
                          [name |-> <<"A", "j", "a", "x">>, id |-> 33]>>]}

\* What the teams endpoint is not asked, and the line that is not read, on
\* the paths that make no lookup or read no team.
NoLookup == [shape |-> "not_asked", response |-> << >>]

NoLine == << >>

TeamsColorTables ==
    { (33 :> FormatRgb(0, 35, 89)),
      (44 :> <<"(", "1", ",", " ", "2", ")">>) }

(***************************************************************************)
(* The pipeline of run: match_cmd_and_call, the fetch loops, parse_fixtures *)
(* and parse_standings, and the printing loop                              *)
(***************************************************************************)

CommandTypes == {"Scores", "Schedule", "Teams", "Live", "Standings"}

\* A mutant of check_if_not_fixtures_trait_type: the Standings arm is lost.
check_if_not_fixtures_trait_type_teamsOnly(command_type) ==
    CASE command_type = "Teams" -> TRUE
      [] OTHER -> FALSE

check_if_not_fixtures_trait_type(command_type) ==
    CASE command_type = "Teams" -> TRUE
      [] command_type = "Standings" -> TRUE
      [] OTHER -> FALSE

\* load_settings.
preferred_leagues == <<39, 135, 78>>

full_leagues == <<39, 140, 88, 78, 135, 61, 94, 253>>

Season == 2023

\* get_today_date: the UTC calendar day of the clock, read at the call.
get_today_date(now) == now

\* get_fixtures_url_by_league reads the clock itself, at every call.
get_fixtures_url_by_league(league_id, now) ==
    [endpoint |-> "fixtures", query |-> "league", id |-> league_id,
     season |-> Season, date |-> get_today_date(now)]

\* get_live_fixtures_url: every id of the full list followed by "-", the
\* last "-" popped.
RECURSIVE LiveField(_)
LiveField(ids) ==
    IF ids = << >> THEN << >>
    ELSE Decimal(Head(ids)) \o <<"-">> \o LiveField(Tail(ids))

get_live_fixtures_url(leagues) ==
    LET field == LiveField(leagues)
    IN  [endpoint |-> "fixtures", query |-> "live",
         live |-> IF field = << >> THEN field ELSE SubSeq(field, 1, Len(field) - 1)]

get_team_url(team_id) ==
    [endpoint |-> "fixtures", query |-> "team", id |-> team_id,
     season |-> Season, last |-> 2]

standings_url(league_id) ==
    [endpoint |-> "standings", query |-> "league", id |-> league_id, season |-> Season]

\* The URL of one call of a batch, built when the call is made.
UrlOf(target, now) ==
    CASE target.kind = "league"    -> get_fixtures_url_by_league(target.id, now)
      [] target.kind = "team"      -> get_team_url(target.id)
      [] target.kind = "live"      -> get_live_fixtures_url(full_leagues)
      [] target.kind = "standings" -> standings_url(target.id)

Targets(kind, ids) == [i \in 1..Len(ids) |-> [kind |-> kind, id |-> ids[i]]]

\* The rows of a roster file as a map name -> id, a later row replacing an
\* earlier one of the same name (HashMap::insert).
teams_with_ids(rows) ==
    [n \in {rows[i].name : i \in 1..Len(rows)} |->
        LET last == CHOOSE i \in 1..Len(rows) :
                        /\ rows[i].name = n
                        /\ \A j \in 1..Len(rows) : rows[j].name = n => j <= i
        IN  rows[last].id]

Unset == "unset"

DefaultPath == "./teams.csv"

\* env::var("CONFIG_PATH").unwrap_or("./teams.csv")
path_string(path) == IF path = Unset THEN DefaultPath ELSE path

NoFile == [exists |-> FALSE, rows |-> << >>]

File(rows) == [exists |-> TRUE, rows |-> rows]

\* The file a path opens: ./teams.csv, or the other file.
FileAt(path, teams, other) ==
    IF path = DefaultPath THEN File(teams) ELSE other

NotRead == [read |-> FALSE, ok |-> FALSE, teams |-> << >>]

\* A mutant of read_from_teams_csv: the path is always ./teams.csv.
read_from_teams_csv_fixedPath(path, teams, other) ==
    [read |-> TRUE, ok |-> TRUE, teams |-> teams_with_ids(teams)]

\* read_from_teams_csv: the file CONFIG_PATH names, or ./teams.csv, read
\* into a map; Err when the file cannot be opened.
read_from_teams_csv(path, teams, other) ==
    LET file == FileAt(path_string(path), teams, other)
    IN  IF file.exists
        THEN [read |-> TRUE, ok |-> TRUE, teams |-> teams_with_ids(file.rows)]
        ELSE [read |-> TRUE, ok |-> FALSE, teams |-> << >>]

\* The orders in which a HashMap of these teams may be iterated.
IterationOrders(teams) ==
    {order \in [1..Cardinality(DOMAIN teams) -> DOMAIN teams] :
        \A i, j \in DOMAIN order : order[i] = order[j] => i = j}

\* ---- results

NoResult == [returned |-> FALSE, ok |-> FALSE, bodies |-> << >>, err |-> ""]

Ok(bodies) == [returned |-> TRUE, ok |-> TRUE, bodies |-> bodies, err |-> ""]

Err(e) == [returned |-> TRUE, ok |-> FALSE, bodies |-> << >>, err |-> e]

NotParsed == [called |-> FALSE, ok |-> FALSE, groups |-> << >>, err |-> ""]

ParseOk(groups) == [called |-> TRUE, ok |-> TRUE, groups |-> groups, err |-> ""]

ParseErr(e) == [called |-> TRUE, ok |-> FALSE, groups |-> << >>, err |-> e]

MissingResponse == "Missing 'response' field"

\* ---- parse_fixtures

\* A mutant of the loop: a body whose `response` is an empty list adds no
\* inner sequence.
RECURSIVE parse_fixtures_loop_droppingEmpty(_, _)
parse_fixtures_loop_droppingEmpty(json_list, acc) ==
    IF json_list = << >> THEN ParseOk(acc)
    ELSE LET json == Head(json_list)
         IN  IF json.shape = "not_json" THEN ParseErr("serde_json::from_str")
             ELSE IF json.shape = "no_response" THEN ParseErr(MissingResponse)
             ELSE IF json.shape # "fixtures" THEN ParseErr("serde_json::from_value")
             ELSE parse_fixtures_loop_droppingEmpty(
                      Tail(json_list),
                      IF json.response = << >> THEN acc
                      ELSE Append(acc, json.response))

\* The loop of parse_fixtures: the first body that fails ends the call with
\* its error ("?"); a body is a JSON object or not, holds `response` or
\* not, and its `response` is a list of fixtures or not.
RECURSIVE parse_fixtures_loop(_, _)
parse_fixtures_loop(json_list, acc) ==
    IF json_list = << >> THEN ParseOk(acc)
    ELSE LET json == Head(json_list)
         IN  IF json.shape = "not_json" THEN ParseErr("serde_json::from_str")
             ELSE IF json.shape = "no_response" THEN ParseErr(MissingResponse)
             ELSE IF json.shape # "fixtures" THEN ParseErr("serde_json::from_value")
             ELSE parse_fixtures_loop(Tail(json_list), Append(acc, json.response))

\* A mutant of the loop: a body that cannot be used is skipped.
RECURSIVE parse_fixtures_loop_skipping(_, _)
parse_fixtures_loop_skipping(json_list, acc) ==
    IF json_list = << >> THEN ParseOk(acc)
    ELSE LET json == Head(json_list)
         IN  IF json.shape # "fixtures"
             THEN parse_fixtures_loop_skipping(Tail(json_list), acc)
             ELSE parse_fixtures_loop_skipping(Tail(json_list), Append(acc, json.response))

\* A mutant of parse_fixtures: bodies that cannot be used are skipped.
parse_fixtures_skipping(json_list) ==
    IF json_list = << >> THEN ParseOk(<< << >> >>)
    ELSE parse_fixtures_loop_skipping(json_list, << >>)

\* A mutant of parse_fixtures: no early return for the empty list.
parse_fixtures_noSentinel(json_list) == parse_fixtures_loop(json_list, << >>)

parse_fixtures(json_list) ==
    IF json_list = << >> THEN ParseOk(<< << >> >>)
    ELSE parse_fixtures_loop(json_list, << >>)

\* ---- parse_standings

RECURSIVE parse_standings_loop(_, _)
parse_standings_loop(raw_response, leagues_list) ==
    IF raw_response = << >> THEN ParseOk(leagues_list)
    ELSE LET json == Head(raw_response)
         IN  IF json.shape = "not_json" THEN ParseErr("serde_json::from_str")
             ELSE IF json.shape = "no_response" THEN ParseErr(MissingResponse)
             ELSE IF json.shape # "standings" THEN ParseErr("serde_json::from_value")
             ELSE parse_standings_loop(Tail(raw_response),
                                       Append(leagues_list, json.response[1]))

parse_standings(raw_response) ==
    IF raw_response = << >> THEN ParseOk(<< >>)
    ELSE parse_standings_loop(raw_response, << >>)

\* print_standings_by_league: one block per league.
print_standings_by_league(league_standings) ==
    [i \in 1..Len(league_standings) |-> Line("standings", league_standings[i])]

\* The tail of get_standings_for_base_leagues: parse and print, or say why not.
standings_output(bodies) ==
    LET standings == parse_standings(bodies)
    IN  IF standings.ok THEN print_standings_by_league(standings.groups)
        ELSE <<Line("Error occurred", standings.err)>>

\* ---- the printing loop of run

\* One call of a row formatter: the line records the call and the row it
\* left; `ended` is the state of that row ("printed" when it returned).
Called(name, fx, r) ==
    [out |-> <<Line(name, [fixture |-> fx, row |-> r])>>, ended |-> r.state]

NothingPrinted == [out |-> << >>, ended |-> "printed"]

\* What two printing steps leave when the second follows the first only if
\* the first returned.
Sequenced(first, rest) ==
    IF first.ended # "printed" THEN first
    ELSE [out |-> first.out \o rest.out, ended |-> rest.ended]

\* print_based_on_command: the row formatter the command kind selects is
\* called on the fixture.
print_based_on_command(fx, command_type, colors, overflow_checks) ==
    CASE command_type = "Live" ->
            Called("format_live_row", fx,
                   format_live_row(colors, fx, overflow_checks))
      [] command_type = "Schedule" ->
            Called("format_schedule_row", fx,
                   format_schedule_row(colors, fx, overflow_checks))
      [] command_type = "Scores" ->
            Called("format_score_row", fx,
                   format_score_row(colors, fx, overflow_checks))
      [] OTHER -> NothingPrinted

\* The inner loop of run: the rows of one fixture list, up to and with the
\* first row that does not return.
RECURSIVE print_fixture_list(_, _, _, _)
print_fixture_list(fixture_list, command_type, colors, overflow_checks) ==
    IF fixture_list = << >> THEN NothingPrinted
    ELSE Sequenced(print_based_on_command(Head(fixture_list), command_type,
                                          colors, overflow_checks),
                   print_fixture_list(Tail(fixture_list), command_type,
                                      colors, overflow_checks))

\* The league name run prints before a schedule list that is not empty.
league_header(fixture_list, command_type) ==
    [out   |-> IF command_type = "Schedule" /\ fixture_list # << >>
               THEN <<Line("league name", fixture_list[1])>>
               ELSE << >>,
     ended |-> "printed"]

\* The outer loop of run: the league name, then the list's rows, list after
\* list.
RECURSIVE print_fixture_responses(_, _, _, _)
print_fixture_responses(fixture_responses, command_type, colors, overflow_checks) ==
    IF fixture_responses = << >> THEN NothingPrinted
    ELSE Sequenced(
             Sequenced(league_header(Head(fixture_responses), command_type),
                       print_fixture_list(Head(fixture_responses), command_type,
                                          colors, overflow_checks)),
             print_fixture_responses(Tail(fixture_responses), command_type,
                                     colors, overflow_checks))

\* How the process stands after its rows: run returned ("ok"), a row
\* panicked ("panic"), or a row is in its loop of 2^64 - n spaces ("padding").
ExitAfterRows(ended) ==
    IF ended = "printed" THEN "ok"
    ELSE IF ended = "padding" THEN "padding"
    ELSE "panic"

\* What run leaves when it has printed the rows of these groups.
Printed(p, printed) ==
    [out |-> printed.out, err |-> << >>, parsed |-> p, calls |-> 1,
     exit |-> ExitAfterRows(printed.ended)]

\* A mutant of run: the result of match_cmd_and_call is parsed and printed
\* whether it is Ok or Err.
run_after_fetch_ignoringErr(command_type, response, colors, overflow_checks) ==
    LET p == parse_fixtures(response.bodies)
    IN  Printed(p, print_fixture_responses(p.groups, command_type, colors,
                                           overflow_checks))

\* run, from the match on the result of match_cmd_and_call to its end: what
\* goes to stdout and stderr, the call of parse_fixtures it makes, and how
\* the process ends.
run_after_fetch(command_type, response, colors, overflow_checks) ==
    IF ~response.ok
    THEN [out |-> << >>, err |-> <<Line("Error from the API", response.err)>>,
          parsed |-> NotParsed, calls |-> 0, exit |-> "ok"]
    ELSE IF check_if_not_fixtures_trait_type(command_type)
    THEN [out |-> << >>, err |-> << >>, parsed |-> NotParsed, calls |-> 0,
          exit |-> "ok"]
    ELSE LET p == parse_fixtures(response.bodies)
         IN  IF ~p.ok
             THEN [out |-> << >>, err |-> <<Line("Error parsing fixtures", p.err)>>,
                   parsed |-> p, calls |-> 1, exit |-> "ok"]
             ELSE IF Len(p.groups) = 0
             THEN [out |-> <<Line("No fixtures :(", << >>)>>, err |-> << >>,
                   parsed |-> p, calls |-> 1, exit |-> "ok"]
             ELSE Printed(p, print_fixture_responses(p.groups, command_type,
                                                     colors, overflow_checks))

\* ---- the inputs of the pipeline specification

MaxDay == 1

Fixture1 ==
    [away |-> 40, home |-> 50, short |-> "NS", away_name |-> Ajax,
     home_name |-> Koeln, goals |-> FALSE, elapsed |-> FALSE]

Fixture2 ==
    [away |-> 907, home |-> 40, short |-> "1H", away_name |-> Koeln,
     home_name |-> Ajax, goals |-> TRUE, elapsed |-> TRUE]

\* What the API may answer to one call.
Bodies ==
    { [shape |-> "not_json", response |-> << >>],
      [shape |-> "no_response", response |-> << >>],
      [shape |-> "other", response |-> << >>],
      [shape |-> "fixtures", response |-> << >>],
      [shape |-> "fixtures", response |-> <<Fixture2>>],
      [shape |-> "fixtures", response |-> <<Fixture2, Fixture1>>],
      [shape |-> "standings", response |-> << <<"table">> >>] }

Ajax33 == [name |-> <<"A", "j", "a", "x">>, id |-> 33]

Ajax44 == [name |-> <<"A", "j", "a", "x">>, id |-> 44]

Roma44 == [name |-> <<"R", "o", "m", "a">>, id |-> 44]

\* The rosters a fetch command may find.
RunRosters == {<< >>, <<Ajax33>>, <<Ajax33, Roma44>>, <<Ajax33, Ajax44>>}

ErrKey == <<"E", "r", "r">>

(***************************************************************************)
(* Specifications                                                          *)
(***************************************************************************)

NoHist == [phase |-> "none", before |-> << >>, entry |-> << >>]

\* The history of the last append: the file before it, the entry, and
\* whether a removal by that entry's name (up to letter case) followed.
NextHist(h, rows, r) ==
    IF r.appended # << >>
    THEN [phase |-> "appended", before |-> rows, entry |-> r.appended]
    ELSE IF r.removed # << >>
    THEN IF /\ h.phase = "appended"
            /\ to_lowercase(r.removed[1]) = to_lowercase(h.entry[1].name)
         THEN [phase |-> "removed", before |-> h.before, entry |-> h.entry]
         ELSE NoHist
    ELSE h

\* A process that has not started yet.
ProcessStart ==
    /\ pc = "start"
    /\ pending = << >>
    /\ res = << >>
    /\ requests = << >>
    /\ result = NoResult
    /\ parsed = NotParsed
    /\ parse_calls = 0
    /\ failed_at = 0
    /\ stdout = << >>
    /\ stderr = << >>
    /\ lookups = 0
    /\ answer = NoLookup
    /\ stdin_line = NoLine
    /\ team_input = NoLine
    /\ teams_file = NotRead
    /\ exit = "running"

RenderIdle ==
    /\ fixture = Fixture1
    /\ row = NoRow

\* CONFIG_PATH is not set and names no other file.
DefaultEnv ==
    /\ CONFIG_PATH = Unset
    /\ config_csv = NoFile

\* ---- row formatting: the inputs are drawn, the row is formatted

InitRender ==
    /\ colors_hashmap \in ColorTables
    /\ fixture \in Fixtures
    /\ row = NoRow
    /\ cmd = "Schedule"
    /\ utc_day = 0
    /\ teams_csv = << >>
    /\ hist = NoHist
    /\ DefaultEnv
    /\ ProcessStart

\* print_based_on_command for a schedule fixture.
FormatScheduleRow ==
    /\ row = NoRow
    /\ \E overflow_checks \in BOOLEAN :
           row' = format_schedule_row(colors_hashmap, fixture, overflow_checks)
    /\ UNCHANGED <<colors_hashmap, fixture>>
    /\ UNCHANGED <<storeVars, runVars, ioVars>>

NextRender == FormatScheduleRow

SpecRender == InitRender /\ [][NextRender]_vars

\* ---- the fixture rows of the three fixture commands, names varying

InitRows ==
    /\ colors_hashmap \in RowColorTables
    /\ fixture \in RowFixtures
    /\ row = NoRow
    /\ cmd \in {"Schedule", "Live", "Scores"}
    /\ utc_day = 0
    /\ teams_csv = << >>
    /\ hist = NoHist
    /\ DefaultEnv
    /\ ProcessStart

\* print_based_on_command: the row of the command is formatted, by a build
\* with or without overflow checks.
FormatRow ==
    /\ row = NoRow
    /\ \E overflow_checks \in BOOLEAN :
         row' = print_based_on_command(fixture, cmd, colors_hashmap,
                                       overflow_checks).out[1].arg.row
    /\ UNCHANGED <<colors_hashmap, fixture>>
    /\ UNCHANGED <<storeVars, runVars, ioVars>>

NextRows == FormatRow

SpecRows == InitRows /\ [][NextRows]_vars

\* ---- one process running one command

\* The clock passes midnight (UTC).
Tick ==
    /\ pc \in {"start", "fetch", "sent"}
    /\ utc_day < MaxDay
    /\ utc_day' = utc_day + 1
    /\ UNCHANGED <<ioVars, renderVars, storeVars, cmd, pc, pending, res, requests,
                   result, parsed, parse_calls, failed_at>>

\* match_cmd_and_call, Schedule: get_schedule up to its loop.
StartSchedule ==
    /\ pc = "start" /\ cmd = "Schedule"
    /\ stdout' = <<Line("Fixtures", << >>)>>
    /\ pending' = Targets("league", preferred_leagues)
    /\ pc' = "fetch"
    /\ UNCHANGED <<ioVars, renderVars, teams_csv, stderr, lookups, exit, answer, hist, cmd, res,
                   requests, utc_day, result, parsed, parse_calls, failed_at>>

\* match_cmd_and_call, Live: get_live_fixtures up to its one call.
StartLive ==
    /\ pc = "start" /\ cmd = "Live"
    /\ pending' = <<[kind |-> "live", id |-> 0]>>
    /\ pc' = "fetch"
    /\ UNCHANGED <<ioVars, renderVars, storeVars, cmd, res, requests, utc_day, result,
                   parsed, parse_calls, failed_at>>

\* match_cmd_and_call, Scores: get_teams_fixtures up to its loop; the roster
\* is read, a key "Err" exits with status 1, and the loop takes the teams in
\* the HashMap's order.
StartScores ==
    /\ pc = "start" /\ cmd = "Scores"
    /\ LET read  == read_from_teams_csv(CONFIG_PATH, teams_csv, config_csv)
           teams == IF read.ok THEN read.teams ELSE ErrKey :> 10
       IN  /\ teams_file' = read
           /\ stdout' = <<Line("Away                      Home", << >>)>> \o
                        (IF read.ok THEN << >>
                         ELSE <<Line("File not found. Exiting", << >>)>>)
           /\ IF ErrKey \in DOMAIN teams
              THEN /\ exit' = "exit1"
                   /\ pc' = "done"
                   /\ pending' = << >>
              ELSE /\ exit' = exit
                   /\ pc' = "fetch"
                   /\ \E order \in IterationOrders(teams) :
                          pending' = [i \in DOMAIN order |->
                                         [kind |-> "team", id |-> teams[order[i]]]]
    /\ UNCHANGED <<stdin_line, team_input, CONFIG_PATH, config_csv>>
    /\ UNCHANGED <<renderVars, teams_csv, stderr, lookups, answer, hist, cmd, res,
                   requests, utc_day, result, parsed, parse_calls, failed_at>>

\* match_cmd_and_call, Standings: get_standings_for_base_leagues up to its loop.
StartStandings ==
    /\ pc = "start" /\ cmd = "Standings"
    /\ pending' = Targets("standings", preferred_leagues)
    /\ pc' = "fetch"
    /\ UNCHANGED <<ioVars, renderVars, storeVars, cmd, res, requests, utc_day, result,
                   parsed, parse_calls, failed_at>>

\* match_cmd_and_call, Teams: prompt_teams_edit prints its prompt and waits
\* for the selection line.
StartTeams ==
    /\ pc = "start" /\ cmd = "Teams"
    /\ stdout' = <<Line("Type 'a' to add a team or 'r' to remove a team", << >>)>>
    /\ pc' = "select"
    /\ UNCHANGED <<ioVars, renderVars, teams_csv, stderr, lookups, exit, answer,
                   hist, cmd, pending, res, requests, utc_day, result, parsed,
                   parse_calls, failed_at>>

\* prompt_teams_edit reads the selection line and takes the arm it selects,
\* as far as get_team_input's read of stdin; the remove arm lists
\* ./teams.csv as it is now.
ReadSelection ==
    /\ pc = "select"
    /\ \E char_input \in SelectionLines :
        LET r == prompt_teams_edit(teams_csv, colors_hashmap, char_input)
        IN  /\ stdin_line' = char_input
            /\ stdout' = stdout \o r.out
            /\ IF r.panic
               THEN /\ exit' = "panic"
                    /\ pc' = "done"
                    /\ result' = result
               ELSE IF r.arm = "invalid"
               THEN /\ exit' = exit
                    /\ pc' = "fetched"
                    /\ result' = Ok(<< >>)
               ELSE /\ exit' = exit
                    /\ pc' = IF r.arm = "a" THEN "team_a" ELSE "team_r"
                    /\ result' = result
    /\ UNCHANGED <<team_input, CONFIG_PATH, config_csv, teams_file, renderVars,
                   teams_csv, stderr, lookups, answer, hist, cmd, pending, res,
                   requests, utc_day, parsed, parse_calls, failed_at>>

\* The add arm: get_team_input reads the team, and try_get_team_id builds
\* the request for it.
ReadTeamToAdd ==
    /\ pc = "team_a"
    /\ \E line \in TeamLines : team_input' = line
    /\ lookups' = lookups + 1
    /\ pc' = "lookup_send"
    /\ UNCHANGED <<stdin_line, CONFIG_PATH, config_csv, teams_file, renderVars,
                   teams_csv, stdout, stderr, exit, answer, hist, cmd, pending,
                   res, requests, utc_day, result, parsed, parse_calls, failed_at>>

\* try_get_team_id, send().await.unwrap(): the request leaves, or the
\* process panics.
LookupSend ==
    /\ pc = "lookup_send"
    /\ \E sent \in BOOLEAN :
        IF sent
        THEN /\ pc' = "lookup_text"
             /\ UNCHANGED <<answer, exit>>
        ELSE /\ add_team(teams_csv, Trim(team_input), SendFails).panic
             /\ answer' = SendFails
             /\ exit' = "panic"
             /\ pc' = "done"
    /\ UNCHANGED <<ioVars, renderVars, teams_csv, stdout, stderr, lookups, hist,
                   cmd, pending, res, requests, utc_day, result, parsed,
                   parse_calls, failed_at>>

\* try_get_team_id from text().await on, and the rest of add_team: the
\* answer arrives, and ./teams.csv as it is now gets the row, or not.
LookupText ==
    /\ pc = "lookup_text"
    /\ \E lookup \in LookupAnswers \ {SendFails} :
        LET r == add_team(teams_csv, Trim(team_input), lookup)
        IN  /\ Len(r.rows) <= MaxRows
            /\ ~r.panic
            /\ answer' = lookup
            /\ teams_csv' = r.rows
            /\ stdout' = stdout \o r.out
            /\ hist' = NextHist(hist, teams_csv,
                                [appended |-> r.appended, removed |-> << >>])
    /\ pc' = "fetched"
    /\ result' = Ok(<< >>)
    /\ UNCHANGED <<ioVars, renderVars, stderr, lookups, exit, cmd, pending, res,
                   requests, utc_day, parsed, parse_calls, failed_at>>

\* The remove arm: get_team_input reads the team, and remove_team_from_csv
\* rewrites ./teams.csv as it is now and prints its confirmation.
ReadTeamToRemove ==
    /\ pc = "team_r"
    /\ \E line \in TeamLines :
        LET team == Trim(line)
        IN  /\ team_input' = line
            /\ teams_csv' = remove_team_from_csv(teams_csv, team)
            /\ stdout' = stdout \o <<Line("Removed", team)>>
            /\ hist' = NextHist(hist, teams_csv,
                                [appended |-> << >>, removed |-> <<team>>])
    /\ pc' = "fetched"
    /\ result' = Ok(<< >>)
    /\ UNCHANGED <<stdin_line, CONFIG_PATH, config_csv, teams_file, renderVars,
                   stderr, lookups, exit, answer, cmd, pending, res, requests,
                   utc_day, parsed, parse_calls, failed_at>>

\* One pass of a fetch loop up to send().await.unwrap(): the URL is built and
\* the request leaves; a request that fails panics.
Send ==
    /\ pc = "fetch" /\ pending # << >>
    /\ requests' = Append(requests, UrlOf(Head(pending), utc_day))
    /\ \E sent \in BOOLEAN :
        IF sent
        THEN /\ pc' = "sent"
             /\ UNCHANGED <<exit, failed_at>>
        ELSE /\ pc' = "done"
             /\ exit' = "panic"
             /\ failed_at' = Len(requests) + 1
    /\ UNCHANGED <<ioVars, renderVars, teams_csv, stdout, stderr, lookups, answer, hist, cmd,
                   pending, res, utc_day, result, parsed, parse_calls>>

\* A mutant of the pass: a body that cannot be read is skipped and the loop
\* goes on to the next call.
Text_skippingFailure ==
    /\ pc = "sent"
    /\ \/ \E body \in Bodies :
            /\ res' = Append(res, body)
            /\ failed_at' = failed_at
       \/ /\ res' = res
          /\ failed_at' = Len(requests)
    /\ pending' = Tail(pending)
    /\ pc' = "fetch"
    /\ UNCHANGED <<ioVars, renderVars, storeVars, cmd, requests, utc_day, result, parsed,
                   parse_calls>>

\* The rest of the pass, text().await?: the body is pushed, or the function
\* returns the error and its bodies are dropped.
Text ==
    /\ pc = "sent"
    /\ \/ \E body \in Bodies :
            /\ res' = Append(res, body)
            /\ pending' = Tail(pending)
            /\ pc' = "fetch"
            /\ UNCHANGED <<result, failed_at>>
       \/ /\ result' = Err("reqwest::Error")
          /\ failed_at' = Len(requests)
          /\ pc' = "fetched"
          /\ UNCHANGED <<res, pending>>
    /\ UNCHANGED <<ioVars, renderVars, storeVars, cmd, requests, utc_day, parsed, parse_calls>>

\* The end of a fetch loop: Ok(res); the standings are parsed and printed
\* first.
Return ==
    /\ pc = "fetch" /\ pending = << >>
    /\ stdout' = IF cmd = "Standings" THEN stdout \o standings_output(res) ELSE stdout
    /\ result' = Ok(res)
    /\ pc' = "fetched"
    /\ UNCHANGED <<ioVars, renderVars, teams_csv, stderr, lookups, exit, answer, hist, cmd,
                   pending, res, requests, utc_day, parsed, parse_calls, failed_at>>

\* run after match_cmd_and_call has returned.
Handle ==
    /\ pc = "fetched"
    /\ \E overflow_checks \in BOOLEAN :
        LET r == run_after_fetch(cmd, result, colors_hashmap, overflow_checks)
        IN  /\ stdout' = stdout \o r.out
            /\ stderr' = stderr \o r.err
            /\ parsed' = r.parsed
            /\ parse_calls' = parse_calls + r.calls
            /\ exit' = r.exit
    /\ pc' = "done"
    /\ UNCHANGED <<ioVars, renderVars, teams_csv, lookups, answer, hist, cmd, pending, res,
                   requests, utc_day, result, failed_at>>

InitRun ==
    /\ colors_hashmap = << >>
    /\ RenderIdle
    /\ cmd \in CommandTypes
    /\ utc_day = 0
    /\ teams_csv \in RunRosters
    /\ hist = NoHist
    /\ DefaultEnv
    /\ ProcessStart

NextRun ==
    \/ Tick
    \/ StartSchedule
    \/ StartLive
    \/ StartScores
    \/ StartStandings
    \/ StartTeams
    \/ ReadSelection
    \/ ReadTeamToAdd
    \/ LookupSend
    \/ LookupText
    \/ ReadTeamToRemove
    \/ Send
    \/ Text
    \/ Return
    \/ Handle

SpecRun == InitRun /\ [][NextRun]_vars

\* ---- the teams command, run again and again on one roster file

InitTeams ==
    /\ colors_hashmap \in TeamsColorTables
    /\ RenderIdle
    /\ cmd = "Teams"
    /\ utc_day = 0
    /\ teams_csv = << >>
    /\ hist = NoHist
    /\ DefaultEnv
    /\ ProcessStart

\* The process has ended; the user runs the teams command again.
NextProcess ==
    /\ pc = "done"
    /\ pc' = "start"
    /\ stdout' = << >>
    /\ stderr' = << >>
    /\ lookups' = 0
    /\ answer' = NoLookup
    /\ stdin_line' = NoLine
    /\ team_input' = NoLine
    /\ teams_file' = NotRead
    /\ exit' = "running"
    /\ result' = NoResult
    /\ UNCHANGED <<CONFIG_PATH, config_csv, renderVars, teams_csv, hist, cmd, pending, res, requests,
                   utc_day, parsed, parse_calls, failed_at>>

NextTeams ==
    \/ StartTeams
    \/ ReadSelection
    \/ ReadTeamToAdd
    \/ LookupSend
    \/ LookupText
    \/ ReadTeamToRemove
    \/ Handle
    \/ NextProcess

SpecTeams == InitTeams /\ [][NextTeams]_vars

\* ---- the teams command run again and again, under each CONFIG_PATH, and
\* ---- then the scores command as far as its read of the roster

\* What CONFIG_PATH may be: not set, the default path itself, another path.
ConfigPaths == {Unset, DefaultPath, "./other.csv"}

\* What lies at the other path: nothing, or a roster written there earlier.
OtherFiles == {NoFile, File(<<Roma44>>)}

RosterColorTables == {33 :> FormatRgb(0, 35, 89)}

InitRoster ==
    /\ colors_hashmap \in RosterColorTables
    /\ RenderIdle
    /\ cmd = "Teams"
    /\ utc_day = 0
    /\ teams_csv = << >>
    /\ hist = NoHist
    /\ CONFIG_PATH \in ConfigPaths
    /\ config_csv \in (IF path_string(CONFIG_PATH) = DefaultPath THEN {NoFile}
                       ELSE OtherFiles)
    /\ ProcessStart

\* The process has ended; the user runs the scores command.
NextScores ==
    /\ pc = "done" /\ cmd = "Teams"
    /\ cmd' = "Scores"
    /\ pc' = "start"
    /\ stdout' = << >>
    /\ stderr' = << >>
    /\ lookups' = 0
    /\ answer' = NoLookup
    /\ stdin_line' = NoLine
    /\ team_input' = NoLine
    /\ teams_file' = NotRead
    /\ exit' = "running"
    /\ result' = NoResult
    /\ UNCHANGED <<CONFIG_PATH, config_csv, renderVars, teams_csv, hist, pending,
                   res, requests, utc_day, parsed, parse_calls, failed_at>>

NextRoster ==
    \/ StartTeams
    \/ ReadSelection
    \/ ReadTeamToAdd
    \/ LookupSend
    \/ LookupText
    \/ ReadTeamToRemove
    \/ Handle
    \/ NextProcess
    \/ NextScores
    \/ StartScores

SpecRoster == InitRoster /\ [][NextRoster]_vars

(***************************************************************************)
(* Claims about row formatting (checked under SpecRender)                  *)
(***************************************************************************)

\* C5: for every status short code s, the in-progress suffix of a printed
\* schedule row is "" when s is "FT", "TBD" or "NS", and "| In Progress"
\* for every other s.
C5_InProgressSuffix ==
    row.state = "printed" =>
        row.suffix = IF fixture.short \in {"FT", "TBD", "NS"}
                     THEN ""
                     ELSE "| In Progress"

\* C5 witness: a full-time fixture was printed, without the suffix.
C5_Witness ==
    /\ row.state = "printed"
    /\ fixture.short = "FT"
    /\ row.suffix = ""

\* The stored colour text of a team, when the table holds its id.
IsAbsent(team_id) == team_id \notin DOMAIN colors_hashmap

IsSentinel(team_id) ==
    /\ team_id \in DOMAIN colors_hashmap
    /\ ~Contains(colors_hashmap[team_id], "(")

IsTriple(team_id) ==
    /\ team_id \in DOMAIN colors_hashmap
    /\ colors_hashmap[team_id] \in WellFormedRgb \cup {DefaultRgbString}

\* What C7 says of one colour lookup: white for an absent id, white for a
\* stored text without "(", and exactly (r, g, b) for a stored "(r, g, b)".
C7_Resolved(team_id, got) ==
    /\ IsAbsent(team_id) => got = Rgb(<<255, 255, 255>>)
    /\ IsSentinel(team_id) => got = Rgb(<<255, 255, 255>>)
    /\ IsTriple(team_id) =>
          /\ ~got.panic
          /\ Len(got.rgb) = 3
          /\ FormatRgb(got.rgb[1], got.rgb[2], got.rgb[3]) = colors_hashmap[team_id]

\* C7: team colour resolution: an id absent from the table gives
\* (255,255,255); a stored string without an opening parenthesis gives
\* (255,255,255); a stored "(r, g, b)" of 8-bit integers gives exactly
\* (r,g,b).  Stated of both lookups a row makes (the home lookup is made
\* only when the away lookup did not panic).
C7_ColourResolution ==
    row # NoRow =>
        /\ C7_Resolved(fixture.away, row.away)
        /\ ~row.away.panic => C7_Resolved(fixture.home, row.home)

\* C7 witness: one row resolved an absent id to white and the stored
\* "(0, 35, 89)" to (0,35,89).
C7_Witness ==
    /\ row # NoRow
    /\ IsAbsent(fixture.away)
    /\ row.away = Rgb(<<255, 255, 255>>)
    /\ fixture.home \in DOMAIN colors_hashmap
    /\ colors_hashmap[fixture.home] = FormatRgb(0, 35, 89)
    /\ row.home = Rgb(<<0, 35, 89>>)

(***************************************************************************)
(* Claims about the roster store and its editor (checked under SpecTeams)  *)
(***************************************************************************)

\* C1: appending an entry (name, id) and then removing by a name equal to
\* name up to letter case leaves the roster with exactly the rows and the
\* row count it had before the append, also when the roster already held a
\* row of that name.
C1_AppendRemoveRoundTrip ==
    hist.phase = "removed" =>
        /\ teams_csv = hist.before
        /\ Len(teams_csv) = Len(hist.before)

\* C2: in every state reachable from a roster with unique names by the
\* add path and removeByName, no two rows carry the same team name.
C2_UniqueNames ==
    \A i, j \in 1..Len(teams_csv) :
        i # j => teams_csv[i].name # teams_csv[j].name

\* The lookups C9 speaks of: zero results, or a body that does not parse.
LookupFound(a) == a.shape = "teams" /\ a.response # << >>

LookupNotFound(a) ==
    \/ a.shape = "teams" /\ a.response = << >>
    \/ a.shape = "unparsable"

Count(lines, msg) == Cardinality({i \in 1..Len(lines) : lines[i].msg = msg})

\* C9: on the add path, when the team lookup yields zero results or fails
\* to parse, the roster file is left exactly as it was, "Not a valid team."
\* is printed, the lookup is made once and not retried, and the command
\* ends without a fatal error.
C9_LookupFailureLeavesRoster ==
    [][ /\ (pc = "lookup_text" /\ LookupNotFound(answer')) =>
            /\ teams_csv' = teams_csv
            /\ Count(stdout', "Not a valid team.") = 1
            /\ Count(stdout', "Added") = 0
            /\ Count(stdout', "Enter a team to add") = 1
            /\ lookups' = 1
            /\ exit' = "running"
            /\ pc' = "fetched"
        /\ (pc = "fetched" /\ lookups = 1 /\ LookupNotFound(answer)) =>
            /\ teams_csv' = teams_csv
            /\ lookups' = 1
            /\ stdout' = stdout
            /\ stderr' = << >>
            /\ exit' = "ok"
            /\ pc' = "done"
      ]_vars

\* C9 witness: a process on the add path got zero results, printed the
\* message and ended, with rows in the file.
C9_Witness ==
    /\ pc = "done"
    /\ exit = "ok"
    /\ lookups = 1
    /\ answer = [shape |-> "teams", response |-> << >>]
    /\ Count(stdout, "Not a valid team.") = 1
    /\ Len(teams_csv) = 2

(***************************************************************************)
(* Claims about the pipeline of run (checked under SpecRun)                *)
(***************************************************************************)

\* C3: parse_fixtures of an empty sequence of raw bodies succeeds with
\* exactly one inner sequence, which is empty: neither a zero-length outer
\* sequence nor an error.
C3_EmptyInputSentinel ==
    (parsed.called /\ result.bodies = << >>) =>
        /\ parsed.ok
        /\ Len(parsed.groups) = 1
        /\ parsed.groups[1] = << >>

\* C3 witness: a scores command with an empty roster made no call and
\* parse_fixtures was called with the empty sequence.
C3_Witness ==
    /\ cmd = "Scores"
    /\ requests = << >>
    /\ parsed.called
    /\ result.bodies = << >>
    /\ parsed.groups = << << >> >>

HasNoResponseBody(bodies) ==
    \E i \in 1..Len(bodies) : bodies[i].shape = "no_response"

FirstNoResponse(bodies) ==
    CHOOSE i \in 1..Len(bodies) :
        /\ bodies[i].shape = "no_response"
        /\ \A j \in 1..(i - 1) : bodies[j].shape # "no_response"

\* C4 as stated: if any one body is a JSON object without a `response` key,
\* parse_fixtures returns the missing-field error for the whole call, and no
\* fixture groups.
C4_MissingFieldWhenAnyBodyLacksResponse ==
    (parsed.called /\ HasNoResponseBody(result.bodies)) =>
        /\ ~parsed.ok
        /\ parsed.groups = << >>
        /\ parsed.err = "Missing 'response' field"

\* C4 as amended: if any one body is a JSON object without a `response`
\* key, parse_fixtures returns an error for the whole call and no fixture
\* groups (not those of the bodies before it, not an empty result); the
\* error is the missing-field error when every body before the first such
\* body parses as a fixture list, and otherwise the error of the first body
\* that does not.
C4_ErrorWhenAnyBodyLacksResponse ==
    (parsed.called /\ HasNoResponseBody(result.bodies)) =>
        LET bodies == result.bodies
            k == FirstNoResponse(bodies)
        IN  /\ ~parsed.ok
            /\ parsed.groups = << >>
            /\ (\A j \in 1..(k - 1) : bodies[j].shape = "fixtures")
                   => parsed.err = "Missing 'response' field"
            /\ (\E j \in 1..(k - 1) : bodies[j].shape # "fixtures")
                   => parsed.err \in {"serde_json::from_str", "serde_json::from_value"}

\* C4 witness: the first body parsed to fixtures, the second lacks
\* `response`, and the call ended in the missing-field error.
C4_Witness ==
    /\ parsed.called
    /\ Len(result.bodies) >= 2
    /\ result.bodies[1].shape = "fixtures"
    /\ result.bodies[1].response # << >>
    /\ result.bodies[2].shape = "no_response"
    /\ parsed.err = "Missing 'response' field"
    /\ parsed.groups = << >>

IsRow(line) ==
    line.msg \in {"format_live_row", "format_schedule_row", "format_score_row",
                  "league name", "standings"}

\* C6: in every batch the calls are issued one at a time, and when the
\* k-th call fails no call after the k-th is issued and the batch ends in a
\* single error (the Err returned by the fetch, printed once as "Error from
\* the API", or the panic of the unwrapped send): the bodies of calls
\* 1..k-1 are never returned, parsed or rendered.
C6_BatchAbortsOnFailure ==
    /\ Len(requests) - Len(res) \in {0, 1}
    /\ (pc = "fetch" /\ failed_at = 0) => Len(requests) = Len(res)
    /\ failed_at # 0 =>
        /\ Len(requests) = failed_at
        /\ Len(res) = failed_at - 1
        /\ pc \in {"fetched", "done"}
        /\ ~result.ok
        /\ result.bodies = << >>
        /\ parse_calls = 0
        /\ ~parsed.called
        /\ \A i \in 1..Len(stdout) : ~IsRow(stdout[i])
        /\ pc = "fetched" => result = Err("reqwest::Error")
        /\ pc = "done" =>
            \/ /\ exit = "ok"
               /\ result = Err("reqwest::Error")
               /\ stderr = <<Line("Error from the API", "reqwest::Error")>>
            \/ /\ exit = "panic"
               /\ result = NoResult
               /\ stderr = << >>

\* C6 witness: the second call of a three-call batch failed after the first
\* had returned a body with fixtures, and the process ended with the one
\* error line.
C6_Witness ==
    /\ failed_at = 2
    /\ Len(pending) = 2
    /\ res[1].shape = "fixtures" /\ res[1].response # << >>
    /\ pc = "done"
    /\ stderr = <<Line("Error from the API", "reqwest::Error")>>

\* C8: for Teams and Standings, run never calls parse_fixtures nor a
\* fixture row renderer, whatever the fetch returned; for Schedule, Live and
\* Scores with a successful fetch it always calls parse_fixtures;
\* check_if_not_fixtures_trait_type is true exactly for Teams and Standings.
C8_NotFixtureShaped ==
    /\ \A c \in CommandTypes :
           check_if_not_fixtures_trait_type(c) <=> c \in {"Teams", "Standings"}
    /\ cmd \in {"Teams", "Standings"} =>
        /\ parse_calls = 0
        /\ ~parsed.called
        /\ \A i \in 1..Len(stdout) :
               stdout[i].msg \notin {"format_live_row", "format_schedule_row",
                                     "format_score_row", "league name"}
    /\ (cmd \in {"Schedule", "Live", "Scores"} /\ pc = "done" /\ result.ok) =>
        /\ parse_calls = 1
        /\ parsed.called

\* C8 witness: a standings command ended after a successful fetch whose
\* bodies hold fixtures, and parse_fixtures was not called.
C8_Witness ==
    /\ cmd = "Standings"
    /\ pc = "done"
    /\ result.ok
    /\ \E i \in 1..Len(result.bodies) :
           result.bodies[i].shape = "fixtures" /\ result.bodies[i].response # << >>
    /\ parse_calls = 0

\* C10: within one schedule fetch every per-league URL carries the same
\* date, also when the clock passes midnight between two league calls.
C10_OneDatePerScheduleFetch ==
    cmd = "Schedule" =>
        \A i, j \in 1..Len(requests) : requests[i].date = requests[j].date

(***************************************************************************)
(* Claims about the fixture rows                                           *)
(***************************************************************************)

\* The display width of a name: its number of characters.
DisplayLen(name) == Len(name)

\* The row got as far as the spaces after the away name.
AwayPadded == row.state \in {"padding", "printed", "unwrap_panic"} \/
              (row.state = "panic" /\ ~row.away.panic)

\* C11: in every fixture row (schedule, live, scores) each team name of
\* n display characters is followed by exactly 27 - n spaces, so that name
\* and padding take 27 display characters; a name of 27 characters or more
\* gets no spaces, and the width computation never goes below zero.
C11_NamesPaddedTo27 ==
    row.state # "none" =>
        /\ row.state \notin {"overflow", "padding"}
        /\ AwayPadded =>
              /\ ~row.away_pad.wrapped
              /\ LET n == DisplayLen(fixture.away_name)
                 IN  row.away_pad.n = IF n <= FieldWidth THEN FieldWidth - n ELSE 0
        /\ row.state \in {"printed", "unwrap_panic"} =>
              /\ ~row.home_pad.wrapped
              /\ LET n == DisplayLen(fixture.home_name)
                 IN  row.home_pad.n = IF n <= FieldWidth THEN FieldWidth - n ELSE 0

(***************************************************************************)
(* Claims about the roster editor                                          *)
(***************************************************************************)

SelectionPrompt == "Type 'a' to add a team or 'r' to remove a team"

\* The editor of this process has read its selection line.
EditorRan == cmd = "Teams" /\ pc \notin {"start", "select"}

AddPath == Len(stdout) >= 2 /\ stdout[2].msg = "Enter a team to add"

RemovePath == Len(stdout) >= 2 /\ stdout[2].msg = "Your current teams"

InvalidPath ==
    stdout = <<Line(SelectionPrompt, << >>), Line("Invalid input", << >>)>>

\* The first character of the trimmed selection line, as a text.
FirstTrimmed == IF Trim(stdin_line) = << >> THEN << >> ELSE <<Trim(stdin_line)[1]>>

\* The selection prompt was shown once, as the first line of the output.
PromptShownOnce == Count(stdout, SelectionPrompt) = 1 /\ stdout[1].msg = SelectionPrompt

\* C12, as stated: the editor reads one selection line and branches on the
\* first character of the trimmed line ('a' add, 'r' remove, anything else
\* the invalid-input message); the prompt is shown once and the command ends.
C12_BranchOnFirstCharacter ==
    EditorRan =>
        /\ PromptShownOnce
        /\ FirstTrimmed = <<"a">> => AddPath
        /\ FirstTrimmed = <<"r">> => RemovePath
        /\ FirstTrimmed \notin {<<"a">>, <<"r">>} => InvalidPath

\* C12, amended: the editor reads one selection line and branches on the
\* whole trimmed line: the line "a" takes the add path, the line "r" the
\* remove path, every other line (longer ones that begin with 'a' or 'r'
\* too) prints the invalid-input message; in all three cases the prompt is
\* shown once, and the next step of the process is the end of the command:
\* no second selection is read.
C12_BranchOnWholeLine ==
    /\ [](EditorRan =>
            /\ PromptShownOnce
            /\ Trim(stdin_line) = <<"a">> => AddPath
            /\ Trim(stdin_line) = <<"r">> => RemovePath
            /\ Trim(stdin_line) \notin {<<"a">>, <<"r">>} => InvalidPath
            /\ pc = "done" => exit \in {"ok", "panic"})
    /\ [][(cmd = "Teams" /\ pc = "fetched") =>
             /\ pc' = "done"
             /\ exit' = "ok"
             /\ stdin_line' = stdin_line
             /\ stdout' = stdout]_vars

\* A line that begins with 'a' and is not "a" got the invalid-input message,
\* and the command has ended.
C12_Witness ==
    /\ EditorRan /\ pc = "done" /\ exit = "ok"
    /\ stdin_line = <<"a", "d", "d", "\n">>
    /\ InvalidPath

\* Two names are the same up to letter case.
SameName(a, b) == to_lowercase(a) = to_lowercase(b)

\* The step of a process on the remove path that has asked for the name:
\* the name is read and the removal made.
RemoveStep == pc = "team_r" /\ Count(stdout, "Enter a team to remove") = 1

\* C13: a removal by name removes every row whose name equals the name up
\* to letter case and no other row, the rows kept staying in their order;
\* when no row matches, the rows and their order are unchanged; in both
\* cases no error ends the process and the "Removed ..." confirmation with
\* the name is the last line printed.
C13_RemoveByName ==
    [][ RemoveStep =>
          LET last == stdout'[Len(stdout')]
              kept == {i \in 1..Len(teams_csv) :
                          ~SameName(teams_csv[i].name, last.arg)}
          IN  /\ last.msg = "Removed"
              /\ Count(stdout', "Removed") = 1
              /\ exit' = "running"
              /\ pc' = "fetched"
              /\ Len(teams_csv') = Cardinality(kept)
              /\ teams_csv' = SelectSeq(teams_csv,
                                 LAMBDA record : ~SameName(record.name, last.arg))
              /\ (kept = 1..Len(teams_csv)) => teams_csv' = teams_csv
      ]_vars

\* The names print_all_teams listed before the removal.
ListedNames == {stdout[i].arg : i \in {j \in 1..Len(stdout) : stdout[j].msg = "team"}}

\* C13 witness: a roster with rows was listed, a name that none of them
\* bears was removed, and the confirmation was printed.
C13_Witness ==
    /\ cmd = "Teams" /\ pc = "done" /\ exit = "ok"
    /\ ListedNames # {}
    /\ stdout[Len(stdout)].msg = "Removed"
    /\ \A n \in ListedNames : ~SameName(n, stdout[Len(stdout)].arg)
    /\ Len(teams_csv) = Cardinality({i \in 1..Len(stdout) : stdout[i].msg = "team"})

(***************************************************************************)
(* Claims about the result of parse_fixtures                               *)
(***************************************************************************)

\* C14: when parse_fixtures succeeds, the outer sequence holds at least one
\* inner sequence: one per raw body, in input order, or the single empty
\* one for empty input; so no process prints "No fixtures :(", a scores
\* command with an empty roster included.
C14_NoFixturesUnreachable ==
    /\ Count(stdout, "No fixtures :(") = 0
    /\ (parsed.called /\ parsed.ok) =>
          /\ Len(parsed.groups) >= 1
          /\ IF result.bodies = << >>
             THEN parsed.groups = << << >> >>
             ELSE /\ Len(parsed.groups) = Len(result.bodies)
                  /\ \A i \in 1..Len(result.bodies) :
                         parsed.groups[i] = result.bodies[i].response

\* C14 witness: a scores command with an empty roster has ended, after a
\* successful parse, without the message.
C14_Witness ==
    /\ cmd = "Scores" /\ teams_csv = << >>
    /\ pc = "done" /\ exit = "ok"
    /\ parsed.called /\ parsed.ok
    /\ Len(parsed.groups) = 1
    /\ Count(stdout, "No fixtures :(") = 0
    /\ stderr = << >>

(***************************************************************************)
(* Claims about the roster file and CONFIG_PATH                            *)
(***************************************************************************)

\* C15: whatever CONFIG_PATH is (not set, or set to any path), the read of
\* the roster that follows a successful append of (name, id) maps name to
\* id, and the read that follows a removal by name holds no key equal to
\* the name up to letter case: append, removal and read act on one file.
C15_OneRosterFile ==
    teams_file.read =>
        /\ hist.phase = "appended" =>
              /\ teams_file.ok
              /\ hist.entry[1].name \in DOMAIN teams_file.teams
              /\ teams_file.teams[hist.entry[1].name] = hist.entry[1].id
        /\ hist.phase = "removed" =>
              \A k \in DOMAIN teams_file.teams : ~SameName(k, hist.entry[1].name)

====
